---- MODULE Spec2Model ----
(***************************************************************************)
(* Model of scripts/splice_data_to_fasta.py: the converter that turns the  *)
(* comma-separated splice-junction dataset into the FASTA file             *)
(* splice.data.fasta.                                                      *)
(*                                                                         *)
(* A text (a Python str, a file's content) is a sequence of one-character  *)
(* strings; a file's content is the text that open() in text mode         *)
(* presents, where every line ends with "\n".  The file system maps the    *)
(* paths that exist to their content; the argument may name the input     *)
(* file, a path that does not exist, or the output file itself.           *)
(* One behaviour is one invocation of the script, one source statement     *)
(* group per step.  The write to splice.data.fasta itself always succeeds.*)
(***************************************************************************)
EXTENDS Naturals, Sequences, FiniteSets, TLC

VARIABLES
    argv,      \* sys.argv: the script name followed by the arguments
    fs,        \* the file system: path |-> content, for the paths that exist
    fs0,       \* history: the file system when the script was started
    pc,        \* position of the script
    lines,     \* the tuple of lines read from the input file
    idx,       \* number of lines the for loop has consumed
    content,   \* the accumulated output text
    f,         \* the output file object: <<>> when not open, else <<buffer>>
    stdout,    \* the messages printed, in order
    error,     \* the uncaught exception that ended the run, or "none"
    opened     \* the <<path, mode>> pairs passed to open(), in order

vars == <<argv, fs, fs0, pc, lines, idx, content, f, stdout, error, opened>>

----------------------------------------------------------------------------
(* Bounds and input alphabet *)

MaxLen == 6

(* Characters of the input files: a letter, the field separator, the     *)
(* space, the line terminator; and, in files of a single unterminated     *)
(* line, the tab (whitespace that is not a space).                        *)
Alphabet    == {"A", ",", " ", "\n"}
TabAlphabet == {"A", ",", " ", "\t"}

Texts(chars, n) == UNION {[1..k -> chars] : k \in 0..n}

Inputs == Texts(Alphabet, MaxLen) \cup Texts(TabAlphabet, MaxLen)

----------------------------------------------------------------------------
(* Names *)

Script  == "splice_data_to_fasta.py"
InPath  == "splice.data.txt"
NoPath  == "no.such.file"
OutPath == "splice.data.fasta"
Paths   == {InPath, NoPath, OutPath}

UsageMsg1 == "\nError: insufficient arguments.\n"
UsageMsg2 == "Command:\n\n\tsplice_data_to_fasta.py <path_splice_data>"
UsageMsg3 == "\tExample: splice_data_to_fasta.py splice.data.txt"
DoneMsg   == "\nThe \"splice.data.fasta\" file was generated.\n"

(* What an earlier run may have left under the output name. *)
OldOutputs == { <<">", "A", "\n", "A", "\n">> }

Argvs == {<<Script>>} \cup {<<Script, p>> : p \in Paths}
                      \cup {<<Script, InPath, NoPath>>}

----------------------------------------------------------------------------
(* Python primitives the script uses *)

(* Position of the first c in s, 0 when there is none. *)
RECURSIVE find(_, _, _)
find(s, c, from) ==
    IF from > Len(s) THEN 0
    ELSE IF s[from] = c THEN from
    ELSE find(s, c, from + 1)

(* str.replace(c, ''): every occurrence of the character c removed. *)
replace(s, c) == SelectSeq(s, LAMBDA x : x # c)

(* str.split(c): the fields between the separators; never empty. *)
RECURSIVE split(_, _)
split(s, c) ==
    LET k == find(s, c, 1)
    IN  IF k = 0 THEN <<s>>
        ELSE <<SubSeq(s, 1, k - 1)>> \o split(SubSeq(s, k + 1, Len(s)), c)

(* Iterating a text file: the lines, each with its terminating newline;   *)
(* the last line has none when the file does not end with one.            *)
RECURSIVE readlines(_)
readlines(s) ==
    LET k == find(s, "\n", 1)
    IN  IF s = <<>> THEN <<>>
        ELSE IF k = 0 THEN <<s>>
        ELSE <<SubSeq(s, 1, k)>> \o readlines(SubSeq(s, k + 1, Len(s)))

(* list[i] with a 0-based index: the element, or IndexError.  A raised    *)
(* exception is a one-element tuple holding its name (no text is one:     *)
(* the elements of a text are single characters).                         *)
IndexError == <<"IndexError">>
IOError    == <<"IOError">>

(* Variant: indexing past the end yields an empty field. *)
item_lenient(list, i) == IF i + 1 \in 1..Len(list) THEN list[i + 1] ELSE <<>>

item(list, i) == IF i + 1 \in 1..Len(list) THEN list[i + 1] ELSE IndexError

----------------------------------------------------------------------------
(* The body of the for loop, lines 28-35 *)

(* Variant: the newline is left on the line. *)
strip_nothing(line) == line

(* line = line.replace('\n', '') *)
strip_newline(line) == replace(line, "\n")

(* attributes_sequence = line.split(',') *)
attributes_sequence(line) == split(strip_newline(line), ",")

(* class_sequence = attributes_sequence[0] *)
class_sequence(attributes) == item(attributes, 0)

(* Variant: every whitespace character is removed, not only the space. *)
sequence_no_whitespace(attributes) ==
    LET field == item(attributes, 2)
    IN  IF field = IndexError THEN IndexError
        ELSE replace(replace(field, " "), "\t")

(* Variant: the sequence is taken from field 1. *)
sequence_from_field1(attributes) ==
    LET field == item(attributes, 1)
    IN  IF field = IndexError \/ item(attributes, 2) = IndexError
        THEN IndexError
        ELSE replace(field, " ")

(* sequence = attributes_sequence[2].replace(' ', '') *)
sequence(attributes) ==
    LET field == item(attributes, 2)
    IN  IF field = IndexError THEN IndexError ELSE replace(field, " ")

(* content_sequence after lines 28-34 for one line of the file: the       *)
(* fragment, or the exception the indexing raises.                        *)
content_sequence(line) ==
    LET attributes == attributes_sequence(line)
        class      == class_sequence(attributes)
        seq        == sequence(attributes)
    IN  IF class = IndexError \/ seq = IndexError THEN IndexError
        ELSE (<<">">> \o class \o <<"\n">>) \o (seq \o <<"\n">>)

(* Variant: the fragment is put in front of the text. *)
accumulate_in_front(text, fragment) == fragment \o text

(* content += content_sequence *)
accumulate(text, fragment) == text \o fragment

----------------------------------------------------------------------------
(* Files *)

exists(path) == path \in DOMAIN fs

(* Variant: open(path, 'a'), an existing file keeps its content. *)
open_a(path) ==
    [p \in DOMAIN fs \cup {path} |->
        IF p \in DOMAIN fs THEN fs[p] ELSE <<>>]

(* open(path, 'w'): the file is created, or truncated when it exists. *)
open_w(path) ==
    [p \in DOMAIN fs \cup {path} |-> IF p = path THEN <<>> ELSE fs[p]]

(* f.close(): the buffered text reaches the file. *)
flush(path, buffer) == [fs EXCEPT ![path] = @ \o buffer]

(* Exit status of the interpreter: 0 at the end of the script, 1 after an *)
(* uncaught exception.                                                     *)
Terminated == pc \in {"done", "failed"}
ExitStatus == IF pc = "failed" THEN 1 ELSE 0

----------------------------------------------------------------------------
(* One invocation *)

(* Variant: only too few arguments are refused. *)
too_few_args == Len(argv) < 2

(* if(len(sys.argv) != 2) *)
wrong_argc == Len(argv) # 2

Init ==
    /\ argv \in Argvs
    /\ \E text \in Inputs :
       \E old \in {<<>>} \cup {<<o>> : o \in OldOutputs} :
          fs = [p \in {InPath} \cup (IF old = <<>> THEN {} ELSE {OutPath})
                  |-> IF p = InPath THEN text ELSE old[1]]
    /\ fs0 = fs
    /\ pc = "start"
    /\ lines = <<>>
    /\ idx = 0
    /\ content = <<>>
    /\ f = <<>>
    /\ stdout = <<>>
    /\ error = "none"
    /\ opened = <<>>

(* Lines 18-21: the argument count is wrong. *)
Usage ==
    /\ pc = "start"
    /\ wrong_argc
    /\ stdout' = stdout \o <<UsageMsg1, UsageMsg2, UsageMsg3>>
    /\ pc' = "done"
    /\ UNCHANGED <<argv, fs, fs0, lines, idx, content, f, error, opened>>

(* Variant: a path that cannot be opened is read as an empty file. *)
InputOpenSwallowed ==
    /\ pc = "start"
    /\ ~wrong_argc
    /\ ~exists(argv[2])
    /\ opened' = Append(opened, <<argv[2], "r">>)
    /\ lines' = <<>>
    /\ idx' = 0
    /\ pc' = "loop"
    /\ UNCHANGED <<argv, fs, fs0, content, f, stdout, error>>

(* Lines 23-24, open() raises: the path cannot be opened for reading. *)
InputOpenFails ==
    /\ pc = "start"
    /\ ~wrong_argc
    /\ ~exists(argv[2])
    /\ opened' = Append(opened, <<argv[2], "r">>)
    /\ error' = "IOError"
    /\ pc' = "failed"
    /\ UNCHANGED <<argv, fs, fs0, lines, idx, content, f, stdout>>

(* Lines 23-24: content = '' and the whole file is read into lines. *)
ReadInput ==
    /\ pc = "start"
    /\ ~wrong_argc
    /\ exists(argv[2])
    /\ content' = <<>>
    /\ opened' = Append(opened, <<argv[2], "r">>)
    /\ lines' = readlines(fs[argv[2]])
    /\ idx' = 0
    /\ pc' = "loop"
    /\ UNCHANGED <<argv, fs, fs0, f, stdout, error>>

(* Variant: the output file is rewritten with each fragment as soon as   *)
(* it is produced.                                                        *)
LoopBodyStreaming ==
    /\ pc = "loop"
    /\ idx < Len(lines)
    /\ LET fragment == content_sequence(lines[idx + 1])
       IN  IF fragment = IndexError
           THEN /\ error' = "IndexError"
                /\ pc' = "failed"
                /\ UNCHANGED <<content, idx, fs>>
           ELSE /\ content' = accumulate(content, fragment)
                /\ idx' = idx + 1
                /\ fs' = [p \in DOMAIN fs \cup {OutPath} |->
                             IF p = OutPath THEN content' ELSE fs[p]]
                /\ UNCHANGED <<error, pc>>
    /\ UNCHANGED <<argv, fs0, lines, f, stdout, opened>>

(* Lines 26-35: one iteration of the for loop. *)
LoopBody ==
    /\ pc = "loop"
    /\ idx < Len(lines)
    /\ LET fragment == content_sequence(lines[idx + 1])
       IN  IF fragment = IndexError
           THEN /\ error' = "IndexError"
                /\ pc' = "failed"
                /\ UNCHANGED <<content, idx>>
           ELSE /\ content' = accumulate(content, fragment)
                /\ idx' = idx + 1
                /\ UNCHANGED <<error, pc>>
    /\ UNCHANGED <<argv, fs, fs0, lines, f, stdout, opened>>

(* Line 37: f = open('splice.data.fasta', 'w'), once the loop is over. *)
OpenOutput ==
    /\ pc = "loop"
    /\ idx = Len(lines)
    /\ opened' = Append(opened, <<OutPath, "w">>)
    /\ fs' = open_w(OutPath)
    /\ f' = << <<>> >>
    /\ pc' = "write"
    /\ UNCHANGED <<argv, fs0, lines, idx, content, stdout, error>>

(* Line 38: f.write(content). *)
WriteOutput ==
    /\ pc = "write"
    /\ f' = <<f[1] \o content>>
    /\ pc' = "close"
    /\ UNCHANGED <<argv, fs, fs0, lines, idx, content, stdout, error, opened>>

(* Line 39: f.close(). *)
CloseOutput ==
    /\ pc = "close"
    /\ fs' = flush(OutPath, f[1])
    /\ f' = <<>>
    /\ pc' = "report"
    /\ UNCHANGED <<argv, fs0, lines, idx, content, stdout, error, opened>>

(* Variant: the message is printed before the text is written. *)
ReportBeforeWrite ==
    /\ pc = "write"
    /\ DoneMsg \notin {stdout[i] : i \in 1..Len(stdout)}
    /\ stdout' = Append(stdout, DoneMsg)
    /\ UNCHANGED <<argv, fs, fs0, pc, lines, idx, content, f, error, opened>>

(* Line 41: the completion message. *)
Report ==
    /\ pc = "report"
    /\ stdout' = Append(stdout, DoneMsg)
    /\ pc' = "done"
    /\ UNCHANGED <<argv, fs, fs0, lines, idx, content, f, error, opened>>

Next ==
    \/ Usage
    \/ InputOpenFails
    \/ ReadInput
    \/ LoopBody
    \/ OpenOutput
    \/ WriteOutput
    \/ CloseOutput
    \/ Report

Spec == Init /\ [][Next]_vars

----------------------------------------------------------------------------
(* The whole conversion of a text, lines 24-35, as a function: the output *)
(* text, or IndexError.                                                    *)

RECURSIVE convert_lines(_, _, _)
convert_lines(file_lines, i, text) ==
    IF i > Len(file_lines) THEN text
    ELSE LET fragment == content_sequence(file_lines[i])
         IN  IF fragment = IndexError THEN IndexError
             ELSE convert_lines(file_lines, i + 1, accumulate(text, fragment))

convert(text) == convert_lines(readlines(text), 1, <<>>)

----------------------------------------------------------------------------
(* Vocabulary of the properties, stated on the characters of a text and   *)
(* independently of the operators above.                                   *)

Range(s) == {s[i] : i \in 1..Len(s)}

Positions(s, c) == {i \in 1..Len(s) : s[i] = c}

(* The n-th occurrence of c in s; 0 for n = 0, Len(s) + 1 past the last. *)
Cut(s, c, n) ==
    IF n = 0 THEN 0
    ELSE IF n > Cardinality(Positions(s, c)) THEN Len(s) + 1
    ELSE CHOOSE p \in Positions(s, c) :
             Cardinality({q \in Positions(s, c) : q < p}) = n - 1

(* The k-th piece (k = 1, 2, ...) of s between occurrences of c. *)
Piece(s, c, k) == SubSeq(s, Cut(s, c, k - 1) + 1, Cut(s, c, k) - 1)

(* Lines of a file: one per newline, and one more for an unterminated     *)
(* rest.  LineBody is a line without its newline.                          *)
NumLines(text) ==
    IF text = <<>> THEN 0
    ELSE Cardinality(Positions(text, "\n"))
         + (IF text[Len(text)] = "\n" THEN 0 ELSE 1)

LineBody(text, i) == Piece(text, "\n", i)

(* A line as the loop sees it, without its terminating newline. *)
Chop(line) ==
    IF line # <<>> /\ line[Len(line)] = "\n"
    THEN SubSeq(line, 1, Len(line) - 1) ELSE line

(* Comma-separated fields of a line body, numbered from 0. *)
NumFields(body) == Cardinality(Positions(body, ",")) + 1
Field(body, k)  == Piece(body, ",", k + 1)

RECURSIVE Unspaced(_)
Unspaced(s) ==
    IF s = <<>> THEN <<>>
    ELSE (IF Head(s) = " " THEN <<>> ELSE <<Head(s)>>) \o Unspaced(Tail(s))

(* The FASTA record of a line body with at least three fields. *)
Record(body) ==
    <<">">> \o Field(body, 0) \o <<"\n">> \o Unspaced(Field(body, 2)) \o <<"\n">>

RECURSIVE RecordsFrom(_, _)
RecordsFrom(text, i) ==
    IF i > NumLines(text) THEN <<>>
    ELSE Record(LineBody(text, i)) \o RecordsFrom(text, i + 1)

Records(text) == RecordsFrom(text, 1)

WellFormed(text) ==
    \A i \in 1..NumLines(text) : NumFields(LineBody(text, i)) >= 3

(* The run at hand. *)
OneArgument   == Len(argv) = 2
InputReadable == OneArgument /\ argv[2] \in DOMAIN fs0
InputText     == fs0[argv[2]]
Printed(msg)  == msg \in Range(stdout)
Succeeded     == pc = "done" /\ OneArgument
OutputOpened  == <<OutPath, "w">> \in Range(opened)

----------------------------------------------------------------------------
(* C1: for every line with at least three comma-separated fields, the     *)
(* iteration of the loop that consumes it appends exactly '>', field 0    *)
(* unchanged, a newline, field 2 without its spaces (every other          *)
(* character kept, in order), a newline.                                   *)
C1_Fragment ==
    [][ (/\ pc = "loop"
         /\ idx < Len(lines)
         /\ NumFields(Chop(lines[idx + 1])) >= 3)
        => (/\ content' = content \o Record(Chop(lines[idx + 1]))
            /\ idx' = idx + 1
            /\ pc' = "loop") ]_vars

(* A fragment has been produced from a line whose label holds a space and *)
(* whose sequence holds a space and a tab.                                 *)
C1_Witness ==
    /\ pc = "loop"
    /\ idx = 1
    /\ NumFields(Chop(lines[1])) >= 3
    /\ " " \in Range(Field(Chop(lines[1]), 0))
    /\ {" ", "\t"} \subseteq Range(Field(Chop(lines[1]), 2))
    /\ content = Record(Chop(lines[1]))

(* C2: when every line of the input file has at least three fields, the   *)
(* run ends normally and splice.data.fasta holds the records of the lines *)
(* 1..N, one per line, in the order of the lines, whether or not the last *)
(* line ends with a newline.                                               *)
C2_AllRecordsInOrder ==
    (Terminated /\ InputReadable /\ WellFormed(InputText))
    => (pc = "done" /\ fs[OutPath] = Records(InputText))

(* Two lines with different records, the last one unterminated, have been *)
(* converted.                                                              *)
C2_Witness ==
    /\ pc = "done"
    /\ InputReadable
    /\ NumLines(InputText) = 2
    /\ InputText[Len(InputText)] # "\n"
    /\ WellFormed(InputText)
    /\ Record(LineBody(InputText, 1)) # Record(LineBody(InputText, 2))
    /\ fs[OutPath] = Records(InputText)

(* C3: with an argument count other than one, the script prints the usage *)
(* message, opens no file, leaves the file system as it was and ends with *)
(* exit status 0.                                                          *)
C3_UsageOnly ==
    ~OneArgument
    => (/\ opened = <<>>
        /\ f = <<>>
        /\ fs = fs0
        /\ pc \in {"start", "done"}
        /\ (pc = "start" => stdout = <<>>)
        /\ (pc = "done" => /\ stdout = <<UsageMsg1, UsageMsg2, UsageMsg3>>
                           /\ ExitStatus = 0))

(* A run with two arguments has ended, beside an existing output file. *)
C3_Witness ==
    /\ Len(argv) = 3
    /\ pc = "done"
    /\ OutPath \in DOMAIN fs0
    /\ stdout # <<>>

(* C4: with one argument naming a path that cannot be opened, the run     *)
(* ends with a non-zero exit status, splice.data.fasta is neither created *)
(* nor modified, and the completion message is not printed.                *)
C4_MissingInput ==
    (OneArgument /\ argv[2] \notin DOMAIN fs0)
    => (/\ fs = fs0
        /\ ~OutputOpened
        /\ ~Printed(DoneMsg)
        /\ pc \in {"start", "failed"}
        /\ (Terminated => ExitStatus # 0 /\ error = "IOError"))

(* The run on a missing path has ended, beside an existing output file. *)
C4_Witness ==
    /\ OneArgument
    /\ argv[2] = NoPath
    /\ pc = "failed"
    /\ error = "IOError"
    /\ OutPath \in DOMAIN fs0
    /\ fs[OutPath] = fs0[OutPath]

(* C5: once the output file is closed, its content is the conversion of   *)
(* the input text and nothing else, whatever splice.data.fasta held       *)
(* before; no other file changes.  A second run on the same input         *)
(* therefore leaves the file as the first run left it.                     *)
C5_Overwrite ==
    (OneArgument /\ pc \in {"report", "done"})
    => (/\ fs[OutPath] = Records(InputText)
        /\ DOMAIN fs = DOMAIN fs0 \cup {OutPath}
        /\ \A p \in DOMAIN fs0 \ {OutPath} : fs[p] = fs0[p]
        /\ (OutPath \in DOMAIN fs0 /\ fs0[OutPath] = Records(InputText)
            => fs = fs0))

(* The second run on an input: the output file already held the           *)
(* conversion of the input, and holds it again.                            *)
C5_Witness ==
    /\ pc = "done"
    /\ OneArgument
    /\ argv[2] = InPath
    /\ OutPath \in DOMAIN fs0
    /\ fs0[OutPath] # <<>>
    /\ fs0[OutPath] = Records(InputText)
    /\ fs[OutPath] = fs0[OutPath]

----------------------------------------------------------------------------
(* The records of the first n lines of a text. *)
RECURSIVE RecordsOfFirst(_, _)
RecordsOfFirst(text, n) ==
    IF n = 0 THEN <<>>
    ELSE RecordsOfFirst(text, n - 1) \o Record(LineBody(text, n))

(* C6: when some line of the input file, its newline removed, has fewer   *)
(* than three comma-separated fields (an empty line included), the run    *)
(* ends with an uncaught IndexError at the first such line: the line is   *)
(* not skipped, no record is made of it, nothing is written or reported.  *)
C6_ShortLineRaises ==
    (InputReadable /\ ~WellFormed(InputText))
    => (/\ pc \in {"start", "loop", "failed"}
        /\ ~OutputOpened
        /\ ~Printed(DoneMsg)
        /\ (Terminated =>
              /\ pc = "failed"
              /\ error = "IndexError"
              /\ ExitStatus # 0
              /\ idx < NumLines(InputText)
              /\ NumFields(LineBody(InputText, idx + 1)) < 3
              /\ \A i \in 1..idx : NumFields(LineBody(InputText, i)) >= 3
              /\ content = RecordsOfFirst(InputText, idx)))

(* The run has failed on a blank last line that follows a good line. *)
C6_Witness ==
    /\ InputReadable
    /\ pc = "failed"
    /\ error = "IndexError"
    /\ idx >= 1
    /\ idx + 1 = NumLines(InputText)
    /\ LineBody(InputText, idx + 1) = <<>>

(* C7: the file a successful run writes has exactly two lines per input   *)
(* line and nothing between them: line 2i-1 is '>' followed by the label  *)
(* of input line i, line 2i is its sequence without spaces, also when the *)
(* third field is empty or all spaces.                                     *)
C7_TwoLinesPerRecord ==
    Succeeded
    => LET out == fs[OutPath]
           n   == NumLines(InputText)
       IN  /\ out # <<>> => out[Len(out)] = "\n"
           /\ NumLines(out) = 2 * n
           /\ \A i \in 1..n :
                 /\ LineBody(out, 2 * i - 1)
                      = <<">">> \o Field(LineBody(InputText, i), 0)
                 /\ LineBody(out, 2 * i)
                      = Unspaced(Field(LineBody(InputText, i), 2))

(* Two lines have been converted, the first with a third field of spaces  *)
(* only: its sequence line is empty and the next header follows it.       *)
C7_Witness ==
    /\ Succeeded
    /\ NumLines(InputText) = 2
    /\ Range(Field(LineBody(InputText, 1), 2)) = {" "}
    /\ LineBody(fs[OutPath], 2) = <<>>
    /\ Head(LineBody(fs[OutPath], 3)) = ">"

(* Other values of field 1, and other fields after the third. *)
OtherMiddles == {<<>>, <<"A">>, <<" ", "A">>}
OtherTails   == {<<>>, <<",">>, <<",", "A", ",", " ">>}

(* The line bodies that agree with body on field 0 and field 2. *)
TwinBodies(body) ==
    {Field(body, 0) \o <<",">> \o m \o <<",">> \o Field(body, 2) \o t :
        m \in OtherMiddles, t \in OtherTails}

(* The texts with the lines of text, each replaced by one of its twins. *)
RECURSIVE TwinsFrom(_, _)
TwinsFrom(text, i) ==
    IF i > NumLines(text) THEN {<<>>}
    ELSE LET end == IF Cut(text, "\n", i) <= Len(text) THEN <<"\n">> ELSE <<>>
         IN  {b \o end \o rest : b \in TwinBodies(LineBody(text, i)),
                                 rest \in TwinsFrom(text, i + 1)}

Twins(text) == TwinsFrom(text, 1)

(* C8: the output depends on field 0 and field 2 of each line only: every *)
(* input with the same number of lines that agrees with the converted one *)
(* on these two fields, whatever its field 1 and its fields after the     *)
(* third, converts to the very content the run has written.                *)
C8_OnlyFields0And2 ==
    Succeeded
    => \A twin \in Twins(InputText) : convert(twin) = fs[OutPath]

(* Two lines have been converted, the first with a non-empty field 1, and *)
(* there are other inputs that agree with them on fields 0 and 2.         *)
C8_Witness ==
    /\ Succeeded
    /\ NumLines(InputText) = 2
    /\ Field(LineBody(InputText, 1), 1) # <<>>
    /\ fs[OutPath] # <<>>
    /\ \E twin \in Twins(InputText) :
          /\ twin # InputText
          /\ NumLines(twin) = 2
          /\ Field(LineBody(twin, 1), 1) # Field(LineBody(InputText, 1), 1)
          /\ NumFields(LineBody(twin, 2)) > NumFields(LineBody(InputText, 2))

(* C9: in every state where the completion message has been printed, the  *)
(* output file has been opened, written and closed, it holds the complete *)
(* conversion of the input, and the run ends with exit status 0; a run    *)
(* that fails never prints the message.                                    *)
C9_MessageAfterClose ==
    /\ Printed(DoneMsg)
       => (/\ pc = "done"
           /\ OneArgument
           /\ OutputOpened
           /\ f = <<>>
           /\ fs[OutPath] = content
           /\ fs[OutPath] = Records(InputText)
           /\ error = "none"
           /\ ExitStatus = 0
           /\ stdout = <<DoneMsg>>)
    /\ pc = "failed" => ~Printed(DoneMsg)

(* The message has been printed after a non-empty conversion. *)
C9_Witness ==
    /\ Printed(DoneMsg)
    /\ pc = "done"
    /\ f = <<>>
    /\ fs[OutPath] # <<>>

(* C10: the output file is opened only after every line has been read and *)
(* transformed: until then, and in every run that fails, the file system  *)
(* is as it was (splice.data.fasta not created, or its content kept); a   *)
(* run that ends leaves either that or the complete conversion.           *)
C10_AllOrNothing ==
    /\ ~OutputOpened => fs = fs0
    /\ OutputOpened
       => (/\ InputReadable
           /\ WellFormed(InputText)
           /\ idx = Len(lines)
           /\ Len(lines) = NumLines(InputText)
           /\ content = Records(InputText)
           /\ error = "none")
    /\ pc = "failed" => ~OutputOpened
    /\ Terminated
       => \/ fs = fs0
          \/ OneArgument /\ fs[OutPath] = Records(InputText)

(* The run has failed on a short line after converting a good one, beside *)
(* an existing output file, which is as it was.                            *)
C10_Witness ==
    /\ pc = "failed"
    /\ error = "IndexError"
    /\ idx >= 1
    /\ content # <<>>
    /\ LineBody(InputText, idx + 1) # <<>>
    /\ OutPath \in DOMAIN fs0
    /\ fs = fs0

====
